---- MODULE Spec2Model ----
(***************************************************************************)
(* A model of compareDatasets.py: one run of the command-line tool, from   *)
(* the parsed arguments to the exit status.  The file system, the lines    *)
(* typed at the prompts and the documents stored in the dataset files are  *)
(* the environment; everything else is translated from the source.         *)
(***************************************************************************)
EXTENDS Integers, Sequences, FiniteSets, TLC

(***************************************************************************)
(* Bounds of the model.                                                    *)
(***************************************************************************)
\* the longest JSON array a dataset file holds
MaxEntries == 2
\* the number of invalid lines one chooser call is given before the model
\* stops feeding it invalid lines
MaxRetries == 1

(***************************************************************************)
(* Strings.  Python compares str values by code point; StrOrder lists the  *)
(* strings of the model in that order.                                     *)
(***************************************************************************)
None == "<None>"

StrOrder ==
    << "", ".git", "1", "2", "README", "alice", "bob", "c1", "c2",
       "dataset.json", "ghost", "gold.json", "lost.json", "nowhere",
       "org", "repo", "repoMinedTarget", "t1", "t2", "ws" >>

StrIndex(s) == CHOOSE i \in 1..Len(StrOrder) : StrOrder[i] = s

\* a < b on str
StrLt(a, b) == StrIndex(a) < StrIndex(b)

\* name.startswith(".")
StartsWithDot(name) == name \in {".git"}

\* sorted(S) for a set of str
RECURSIVE SortedNames(_)
SortedNames(S) ==
    IF S = {} THEN << >>
    ELSE LET m == CHOOSE x \in S : \A y \in S : y = x \/ StrLt(x, y)
         IN  << m >> \o SortedNames(S \ {m})

(***************************************************************************)
(* Paths are sequences of components; an absolute path starts with "/".    *)
(***************************************************************************)
Cwd == << "/", "work" >>

IsAbsolute(p) == Len(p) > 0 /\ p[1] = "/"

\* Path.resolve(): make the path absolute (the model has no symlinks and
\* no ".." components)
Resolve(p) == IF IsAbsolute(p) THEN p ELSE Cwd \o p

\* p / name; joining the empty string leaves the path as it is
Join(p, name) == IF name = "" THEN p ELSE Append(p, name)

Parent(p) == SubSeq(p, 1, Len(p) - 1)

PathName(p) == p[Len(p)]

(***************************************************************************)
(* The file system: the set of directories and the set of regular files.   *)
(***************************************************************************)
RootDir == Cwd \o << "repoMinedTarget" >>

\* a tree with a hidden directory and a regular file beside the students,
\* an empty student directory and a repository without a dataset
FsMixed ==
    [ dirs  |-> { Cwd, RootDir,
                  RootDir \o << ".git" >>,
                  RootDir \o << "alice" >>,
                  RootDir \o << "bob" >>,
                  RootDir \o << "alice", "org" >>,
                  RootDir \o << "alice", "org", "repo" >>,
                  RootDir \o << "alice", "org", "ws" >> },
      files |-> { RootDir \o << "README" >>,
                  RootDir \o << "alice", "org", "repo", "dataset.json" >>,
                  Cwd \o << "gold.json" >> } ]

\* a tree that holds directories only, down to the datasets
FsClean ==
    [ dirs  |-> { Cwd, RootDir,
                  RootDir \o << "alice" >>,
                  RootDir \o << "bob" >>,
                  RootDir \o << "alice", "org" >>,
                  RootDir \o << "bob", "org" >>,
                  RootDir \o << "alice", "org", "repo" >>,
                  RootDir \o << "bob", "org", "repo" >> },
      files |-> { RootDir \o << "alice", "org", "repo", "dataset.json" >>,
                  RootDir \o << "bob", "org", "repo", "dataset.json" >>,
                  Cwd \o << "gold.json" >> } ]

FileSystems == { FsMixed, FsClean }

\* Path.exists()
Exists(f, p) == p \in f.dirs \/ p \in f.files

\* the entries p.iterdir() yields
Children(f, p) ==
    { q \in f.dirs \cup f.files : Len(q) = Len(p) + 1 /\ Parent(q) = p }

\* list_dirs: the outcome of the call, an exception or the sorted list.
\* The filter tests p.is_dir(), the directory being listed, not the entry d.
list_dirs(f, p) ==
    IF ~Exists(f, p) THEN [ raised |-> "FileNotFoundError", names |-> << >> ]
    ELSE IF p \notin f.dirs
    THEN [ raised |-> "NotADirectoryError", names |-> << >> ]
    ELSE [ raised |-> None,
           names  |-> SortedNames({ PathName(d) : d \in
                        { d \in Children(f, p) :
                            p \in f.dirs /\ ~StartsWithDot(PathName(d)) } }) ]

(***************************************************************************)
(* JSON values.  A value carries its Python type and its text.             *)
(***************************************************************************)
Str(s) == [ t |-> "str", v |-> s ]

Num(s) == [ t |-> "int", v |-> s ]

EmptyList == [ t |-> "list", v |-> "[]" ]

Absent == [ t |-> "absent", v |-> "" ]

\* hash(v) succeeds: lists and dicts are unhashable
Hashable(v) == v.t \notin { "list", "dict" }

\* An element of a dataset array: its type and, for a mapping, its keys
\* and the values of the two keys the loader reads.
DictEntry(ks, c, n) ==
    [ t |-> "dict", keys |-> ks,
      aCommit |-> IF "aCommit" \in ks THEN c ELSE Absent,
      name    |-> IF "name" \in ks THEN n ELSE Absent ]

Scalar(ty) == [ t |-> ty, keys |-> {}, aCommit |-> Absent, name |-> Absent ]

CommitValues == { Str("c1"), Str("c2"), Num("1"), EmptyList }

NameValues == { Str("t1"), Str("t2") }

Entries ==
    { DictEntry({"aCommit", "name"}, c, n) : c \in CommitValues, n \in NameValues }
      \cup { DictEntry({"aCommit", "sha"}, Str("c1"), Absent),
             DictEntry({"name"}, Absent, Str("t1")),
             Scalar("int"), Scalar("str") }

\* sequences over S of length at most n
RECURSIVE SeqsUpTo(_, _)
SeqsUpTo(S, n) ==
    IF n = 0 THEN { << >> }
    ELSE LET shorter == SeqsUpTo(S, n - 1)
         IN  shorter \cup { Append(q, x) : q \in shorter, x \in S }

\* What a dataset file holds: text that is not JSON, or a JSON document.
\* items is what iterating the document yields: the elements of an array,
\* the keys of an object, the characters of a string.
Document(kind, items) == [ kind |-> kind, items |-> items ]

NoData == Document("none", << >>)

Documents ==
    { Document("list", q) : q \in SeqsUpTo(Entries, MaxEntries) }
      \cup { Document("invalid", << >>),
             Document("int", << >>),
             Document("dict", << Scalar("str") >>),
             Document("str", << Scalar("str"), Scalar("str") >>) }

\* json.load: the parsed document, or JSONDecodeError
json_load(doc) ==
    IF doc.kind = "invalid"
    THEN [ raised |-> "JSONDecodeError", data |-> NoData ]
    ELSE [ raised |-> None, data |-> doc ]

\* the filter of the set comprehension of load_pairs
Selected(entry) ==
    entry.t = "dict" /\ "aCommit" \in entry.keys /\ "name" \in entry.keys

\* the set comprehension of load_pairs over the parsed document: iterating
\* a number raises TypeError, and so does adding an unhashable tuple
PairSet(data) ==
    IF data.kind \notin { "list", "dict", "str" }
    THEN [ raised |-> "TypeError", pairs |-> {} ]
    ELSE LET picked == { i \in 1..Len(data.items) : Selected(data.items[i]) }
         IN  IF \E i \in picked : ~Hashable(data.items[i].aCommit)
                                  \/ ~Hashable(data.items[i].name)
             THEN [ raised |-> "TypeError", pairs |-> {} ]
             ELSE [ raised |-> None,
                    pairs  |-> { << data.items[i].aCommit, data.items[i].name >> :
                                   i \in picked } ]

(***************************************************************************)
(* The comparison of main and the order sorted() gives the listings.       *)
(***************************************************************************)
\* the operands of the difference exchanged
MissingSwapped(gold, mine) == mine \ gold

\* gold_set - mine_set
Missing(gold, mine) == gold \ mine

\* mine_set - gold_set
Extra(gold, mine) == mine \ gold

\* gold_set & mine_set
Matched(gold, mine) == gold \cap mine

IntOf(s) == CHOOSE k \in 0..4 : << "0", "1", "2", "3", "4" >>[k + 1] = s

\* a < b is defined for two str and for two int, and raises otherwise
Orderable(a, b) == a.t = b.t /\ a.t \in { "str", "int" }

ValLt(a, b) == IF a.t = "str" THEN StrLt(a.v, b.v) ELSE IntOf(a.v) < IntOf(b.v)

\* tuple comparison: the first position where the pairs differ decides
PairOrderable(p, q) ==
    IF p[1] # q[1] THEN Orderable(p[1], q[1]) ELSE Orderable(p[2], q[2])

PairLt(p, q) ==
    IF p[1] # q[1] THEN ValLt(p[1], q[1]) ELSE ValLt(p[2], q[2])

\* sorted(S) raises TypeError when two members cannot be ordered
SortRaises(S) == \E p, q \in S : p # q /\ ~PairOrderable(p, q)

\* the listing in descending order
RECURSIVE SortedPairsDescending(_)
SortedPairsDescending(S) ==
    IF S = {} THEN << >>
    ELSE LET m == CHOOSE p \in S : \A q \in S : q = p \/ PairLt(q, p)
         IN  << m >> \o SortedPairsDescending(S \ {m})

RECURSIVE SortedPairs(_)
SortedPairs(S) ==
    IF S = {} THEN << >>
    ELSE LET m == CHOOSE p \in S : \A q \in S : q = p \/ PairLt(p, q)
         IN  << m >> \o SortedPairs(S \ {m})

(***************************************************************************)
(* The lines typed at a prompt, and what choose_from_list does with one.   *)
(***************************************************************************)
EndOfInput == "<EOF>"

\* the character U+00B2, SUPERSCRIPT TWO
SuperscriptTwo == "<U+00B2>"

Lines == { "x", "", SuperscriptTwo, "0", "1", " 2 ", "3", "4" }

\* str.strip()
strip(line) == IF line = " 2 " THEN "2" ELSE line

\* str.isdigit(): true of the decimal digits and of the superscript digits
isdigit(s) == s \in { "0", "1", "2", "3", "4", SuperscriptTwo }

\* int(s): the superscript digits are digits and are not decimal
int(s) ==
    IF s = SuperscriptTwo
    THEN [ raised |-> "ValueError", value |-> 0 ]
    ELSE [ raised |-> None, value |-> IntOf(s) ]

\* one pass of the loop of choose_from_list on the line read: the loop
\* returns an item, raises, or prompts again
ChooseStep(items, line) ==
    LET choice == strip(line)
    IN  IF ~isdigit(choice) THEN [ does |-> "again", item |-> None ]
        ELSE IF int(choice).raised # None
        THEN [ does |-> "raise", item |-> int(choice).raised ]
        ELSE IF 1 <= int(choice).value /\ int(choice).value <= Len(items)
        THEN [ does |-> "return", item |-> items[int(choice).value] ]
        ELSE [ does |-> "again", item |-> None ]

(***************************************************************************)
(* The command line.                                                       *)
(***************************************************************************)
NoPath == << >>

Arguments(g, groot, gs, go, gr, m, mroot, ms, mo, mr, pos) ==
    [ gold |-> g, gold_root |-> groot,
      gold_student |-> gs, gold_owner |-> go, gold_repo |-> gr,
      mine |-> m, mine_root |-> mroot,
      mine_student |-> ms, mine_owner |-> mo, mine_repo |-> mr,
      positional |-> pos ]

\* -g/--gold and -m/--mine: absent, a file that exists, a file that does not
FileArgs == { NoPath, << "gold.json" >>, << "lost.json" >> }

\* --gold-root and --mine-root: the default, and a directory that is missing
RootArgs == { << "repoMinedTarget" >>, << "nowhere" >> }

StudentArgs == { None, "", "alice", "ghost" }

OwnerArgs == { None, "org" }

RepoArgs == { None, "repo" }

PositionalArgs ==
    { << >>, << "bob" >>, << "alice", "org" >>, << "alice", "org", "repo" >> }

\* every command line of the resolution model
ArgsAll ==
    { Arguments(g, groot, gs, go, gr, m, mroot, ms, mo, mr, pos) :
        g \in { NoPath, << "gold.json" >> }, groot \in RootArgs,
        gs \in { None, "", "alice" }, go \in OwnerArgs, gr \in RepoArgs,
        m \in { NoPath, << "gold.json" >> }, mroot \in RootArgs,
        ms \in StudentArgs, mo \in OwnerArgs, mr \in RepoArgs,
        pos \in PositionalArgs }

\* command lines that name both files
ArgsExplicit ==
    { Arguments(g, << "repoMinedTarget" >>, None, None, None,
                m, << "repoMinedTarget" >>, None, None, None, << >>) :
        g \in { << "gold.json" >> },
        m \in { << "gold.json" >>,
                << "repoMinedTarget", "alice", "org", "repo", "dataset.json" >> } }

\* the command lines of the whole-run model: both files named, one side
\* left to discovery, a segment that names no directory, a missing root
ArgsRun ==
    ArgsExplicit \cup
    { Arguments(<< "gold.json" >>, << "repoMinedTarget" >>, None, None, None,
                m, mroot, ms, mo, mr, << >>) :
        m \in { NoPath, << "lost.json" >> }, mroot \in RootArgs,
        ms \in { None, "ghost" }, mo \in OwnerArgs, mr \in RepoArgs } \cup
    { Arguments(NoPath, << "repoMinedTarget" >>, "alice", "org", gr,
                << "gold.json" >>, << "repoMinedTarget" >>, None, None, None, << >>) :
        gr \in RepoArgs }

(***************************************************************************)
(* The state of one run.                                                   *)
(***************************************************************************)
VARIABLES
    pc,            \* the statement of main (or of a callee) the run is at
    side,          \* "GOLD" or "MINE": the side being resolved, checked or loaded
    seg,           \* the segment discover is at: "student", "owner", "repo"
    args,          \* the parsed command line
    fs,            \* the file system
    mine_student, mine_owner, mine_repo,   \* main's prefilled MINE triple
    root,          \* gold_root or mine_root, resolved
    student, owner, repo,                  \* discover's three locals
    items,         \* the list choose_from_list was given
    choice,        \* the last line read by choose_from_list, stripped
    retries,       \* the invalid lines the current chooser call has read
    calls,         \* the chooser calls made so far: side, segment, directory
                   \* listed and, once the call has returned, the item
    gold_path, mine_path,
    data,          \* load_pairs' parsed document
    kept,          \* the GOLD document, while MINE is still to read the same file
    gold_set, mine_set,
    missing, extra, matched,
    out,           \* what main has printed to standard output
    exit           \* how the process ended, if it has

vars ==
    << pc, side, seg, args, fs, mine_student, mine_owner, mine_repo, root,
       student, owner, repo, items, choice, retries, calls, gold_path,
       mine_path, data, kept, gold_set, mine_set, missing, extra, matched,
       out, exit >>

Running == [ status |-> "running", code |-> 0, how |-> "", what |-> "" ]

\* sys.exit(message): the message goes to standard error, the status is 1
SysExit(what) == [ status |-> "exited", code |-> 1, how |-> "sys.exit", what |-> what ]

\* an exception nothing catches: a traceback, and the status is 1
Uncaught(what) == [ status |-> "exited", code |-> 1, how |-> "traceback", what |-> what ]

\* main returns
Returned == [ status |-> "exited", code |-> 0, how |-> "return", what |-> "" ]

Event(ev, arg) == [ ev |-> ev, arg |-> arg ]

InitWith(A) ==
    /\ args \in A
    /\ fs \in FileSystems
    /\ pc = "prefill" /\ side = "GOLD" /\ seg = "student"
    /\ mine_student = None /\ mine_owner = None /\ mine_repo = None
    /\ root = NoPath
    /\ student = None /\ owner = None /\ repo = None
    /\ items = << >> /\ choice = None /\ retries = 0
    /\ calls = << >>
    /\ gold_path = NoPath /\ mine_path = NoPath
    /\ data = NoData /\ kept = NoData
    /\ gold_set = {} /\ mine_set = {}
    /\ missing = {} /\ extra = {} /\ matched = {}
    /\ out = << >>
    /\ exit = Running

Init == InitWith(ArgsRun)

(***************************************************************************)
(* main, lines 94-98: the positionals prefill the MINE triple.             *)
(***************************************************************************)
\* bool(s) of an optional str
Truthy(s) == s # None /\ s # ""

\* flag or (pos[i-1] if len(pos) >= i else None)
Prefilled(flag, pos, i) ==
    IF Truthy(flag) THEN flag
    ELSE IF Len(pos) >= i THEN pos[i] ELSE None

Prefill ==
    /\ pc = "prefill" /\ exit = Running
    /\ mine_student' = Prefilled(args.mine_student, args.positional, 1)
    /\ mine_owner' = Prefilled(args.mine_owner, args.positional, 2)
    /\ mine_repo' = Prefilled(args.mine_repo, args.positional, 3)
    /\ pc' = "path" /\ side' = "GOLD"
    /\ UNCHANGED << seg, args, fs, root, student, owner, repo, items, choice,
                    retries, calls, gold_path, mine_path, data, kept, gold_set,
                    mine_set, missing, extra, matched, out, exit >>

(***************************************************************************)
(* main, lines 100-118: the path of one side.                              *)
(***************************************************************************)
\* args.gold, args.mine
ExplicitArg(s) == IF s = "GOLD" THEN args.gold ELSE args.mine

\* args.gold_root, args.mine_root
RootArg(s) == IF s = "GOLD" THEN args.gold_root ELSE args.mine_root

\* the student, owner and repo main hands to discover for a side
Supplied(s) ==
    IF s = "GOLD"
    THEN [ student |-> args.gold_student, owner |-> args.gold_owner,
           repo |-> args.gold_repo ]
    ELSE [ student |-> mine_student, owner |-> mine_owner, repo |-> mine_repo ]

\* resolve_dataset_path
resolve_dataset_path(r, st, ow, rp) ==
    Resolve(Join(Join(Join(Join(r, st), ow), rp), "dataset.json"))

\* the assignment to gold_path or mine_path, and the statement after it
PathResolved(p) ==
    /\ IF side = "GOLD"
       THEN gold_path' = p /\ pc' = "path" /\ side' = "MINE"
            /\ UNCHANGED mine_path
       ELSE mine_path' = p /\ pc' = "info" /\ side' = "GOLD"
            /\ UNCHANGED gold_path

\* if args.gold: ... else: ...  (and the same for MINE), up to the call of
\* discover
SidePath ==
    /\ pc = "path" /\ exit = Running
    /\ IF ExplicitArg(side) # NoPath
       THEN /\ PathResolved(Resolve(ExplicitArg(side)))
            /\ UNCHANGED << seg, root, student, owner, repo, exit >>
       ELSE /\ root' = Resolve(RootArg(side))
            /\ IF ~Exists(fs, root')
               THEN /\ exit' = SysExit("root not found")
                    /\ pc' = "exit"
                    /\ UNCHANGED << side, seg, student, owner, repo >>
               ELSE /\ student' = Supplied(side).student
                    /\ owner' = Supplied(side).owner
                    /\ repo' = Supplied(side).repo
                    /\ pc' = "discover" /\ seg' = "student"
                    /\ UNCHANGED << side, exit >>
            /\ UNCHANGED << gold_path, mine_path >>
    /\ UNCHANGED << args, fs, mine_student, mine_owner, mine_repo, items,
                    choice, retries, calls, data, kept, gold_set, mine_set,
                    missing, extra, matched, out >>

(***************************************************************************)
(* discover and choose_from_list.                                          *)
(***************************************************************************)
\* the local of discover that holds a segment
Local(sg) == IF sg = "student" THEN student ELSE IF sg = "owner" THEN owner ELSE repo

\* every segment listed in the root
ListedDirRoot(sg) == root

\* the directory discover lists for a segment: root, owner_dir, leaf_root
ListedDir(sg) ==
    IF sg = "student" THEN root
    ELSE IF sg = "owner" THEN Join(root, student)
    ELSE Join(Join(root, student), owner)

\* the statement after a segment is settled
AfterSegment(sg) ==
    IF sg = "student" THEN pc' = "discover" /\ seg' = "owner"
    ELSE IF sg = "owner" THEN pc' = "discover" /\ seg' = "repo"
    ELSE pc' = "resolve" /\ seg' = sg

\* one "if <segment> is None:" of discover, up to the first prompt of
\* choose_from_list
Discover ==
    /\ pc = "discover" /\ exit = Running
    /\ IF Local(seg) # None
       THEN /\ AfterSegment(seg)
            /\ UNCHANGED << items, retries, calls, exit >>
       ELSE LET listing == list_dirs(fs, ListedDir(seg))
            IN  IF listing.raised # None
                THEN /\ exit' = Uncaught(listing.raised)
                     /\ pc' = "exit"
                     /\ UNCHANGED << seg, items, retries, calls >>
                ELSE /\ calls' = Append(calls, [ side |-> side, seg |-> seg,
                                                 dir |-> ListedDir(seg),
                                                 item |-> None ])
                     /\ items' = listing.names
                     /\ retries' = 0
                     /\ IF listing.names = << >>
                        THEN exit' = SysExit("no options") /\ pc' = "exit"
                        ELSE exit' = exit /\ pc' = "input"
                     /\ UNCHANGED seg
    /\ UNCHANGED << side, args, fs, mine_student, mine_owner, mine_repo, root,
                    student, owner, repo, choice, gold_path, mine_path, data,
                    kept, gold_set, mine_set, missing, extra, matched, out >>

\* the assignment of choose_from_list's result in discover
SetLocal(sg, item) ==
    /\ student' = IF sg = "student" THEN item ELSE student
    /\ owner' = IF sg = "owner" THEN item ELSE owner
    /\ repo' = IF sg = "repo" THEN item ELSE repo

\* one pass of the while loop of choose_from_list: input() reads a line or
\* meets the end of the input
Input ==
    /\ pc = "input" /\ exit = Running
    /\ \E line \in Lines \cup { EndOfInput } :
         IF line = EndOfInput
         THEN /\ exit' = Uncaught("EOFError")
              /\ pc' = "exit"
              /\ UNCHANGED << seg, student, owner, repo, choice, retries, calls >>
         ELSE LET step == ChooseStep(items, line)
              IN  /\ choice' = strip(line)
                  /\ CASE step.does = "return" ->
                            /\ SetLocal(seg, step.item)
                            /\ AfterSegment(seg)
                            /\ calls' = [ calls EXCEPT ![Len(calls)].item = step.item ]
                            /\ UNCHANGED << retries, exit >>
                       [] step.does = "raise" ->
                            /\ exit' = Uncaught(step.item)
                            /\ pc' = "exit"
                            /\ UNCHANGED << seg, student, owner, repo, retries,
                                            calls >>
                       [] OTHER ->
                            /\ retries < MaxRetries
                            /\ retries' = retries + 1
                            /\ UNCHANGED << pc, seg, student, owner, repo, exit,
                                            calls >>
    /\ UNCHANGED << side, args, fs, mine_student, mine_owner, mine_repo, root,
                    items, gold_path, mine_path, data, kept, gold_set,
                    mine_set, missing, extra, matched, out >>

\* gold_path = resolve_dataset_path(...), and the same for MINE
ResolveDataset ==
    /\ pc = "resolve" /\ exit = Running
    /\ PathResolved(resolve_dataset_path(root, student, owner, repo))
    /\ UNCHANGED << seg, args, fs, mine_student, mine_owner, mine_repo, root,
                    student, owner, repo, items, choice, retries, calls, data,
                    kept, gold_set, mine_set, missing, extra, matched, out, exit >>

NextResolve == Prefill \/ SidePath \/ Discover \/ Input \/ ResolveDataset

SpecResolve == InitWith(ArgsAll) /\ [][NextResolve]_vars

(***************************************************************************)
(* main, lines 120-124: the two paths are printed and checked.             *)
(***************************************************************************)
PathOf(s) == IF s = "GOLD" THEN gold_path ELSE mine_path

Info ==
    /\ pc = "info" /\ exit = Running
    /\ out' = out \o << Event("INFO GOLD", gold_path), Event("INFO MINE", mine_path) >>
    /\ pc' = "ensure" /\ side' = "GOLD"
    /\ UNCHANGED << seg, args, fs, mine_student, mine_owner, mine_repo, root,
                    student, owner, repo, items, choice, retries, calls,
                    gold_path, mine_path, data, kept, gold_set, mine_set,
                    missing, extra, matched, exit >>

\* ensure_file: the exit it makes, if any; the hint is added when the
\* parent directory exists
ensure_file(f, p) ==
    IF Exists(f, p) THEN Running
    ELSE IF Exists(f, Parent(p)) THEN SysExit("file not found, with hint")
    ELSE SysExit("file not found")

Ensure ==
    /\ pc = "ensure" /\ exit = Running
    /\ exit' = ensure_file(fs, PathOf(side))
    /\ IF exit' # Running
       THEN pc' = "exit" /\ UNCHANGED side
       ELSE IF side = "GOLD"
       THEN pc' = "ensure" /\ side' = "MINE"
       ELSE pc' = "open" /\ side' = "GOLD"
    /\ UNCHANGED << seg, args, fs, mine_student, mine_owner, mine_repo, root,
                    student, owner, repo, items, choice, retries, calls,
                    gold_path, mine_path, data, kept, gold_set, mine_set,
                    missing, extra, matched, out >>

(***************************************************************************)
(* load_pairs.                                                             *)
(***************************************************************************)
\* the try block: the file is opened and json.load parses what it holds
Open ==
    /\ pc = "open" /\ exit = Running
    /\ IF ~Exists(fs, PathOf(side))
       THEN /\ exit' = SysExit("file not found")
            /\ pc' = "exit"
            /\ UNCHANGED << data, kept >>
       ELSE IF PathOf(side) \in fs.dirs
       THEN /\ exit' = Uncaught("IsADirectoryError")
            /\ pc' = "exit"
            /\ UNCHANGED << data, kept >>
       ELSE \E doc \in Documents :
              /\ (side = "MINE" /\ mine_path = gold_path) => doc = kept
              /\ kept' = IF side = "GOLD" /\ mine_path = gold_path
                         THEN doc ELSE NoData
              /\ IF json_load(doc).raised # None
                 THEN /\ exit' = SysExit("invalid JSON")
                      /\ pc' = "exit"
                      /\ UNCHANGED data
                 ELSE /\ data' = json_load(doc).data
                      /\ pc' = "pairs"
                      /\ UNCHANGED exit
    /\ UNCHANGED << side, seg, args, fs, mine_student, mine_owner, mine_repo,
                    root, student, owner, repo, items, choice, retries, calls,
                    gold_path, mine_path, gold_set, mine_set, missing, extra,
                    matched, out >>

\* the set comprehension, and the assignment of its value in main
Pairs ==
    /\ pc = "pairs" /\ exit = Running
    /\ LET result == PairSet(data)
       IN  IF result.raised # None
           THEN /\ exit' = Uncaught(result.raised)
                /\ pc' = "exit"
                /\ UNCHANGED << side, data, gold_set, mine_set >>
           ELSE /\ data' = NoData
                /\ IF side = "GOLD"
                   THEN /\ gold_set' = result.pairs
                        /\ pc' = "open" /\ side' = "MINE"
                        /\ UNCHANGED mine_set
                   ELSE /\ mine_set' = result.pairs
                        /\ pc' = "summary"
                        /\ UNCHANGED << side, gold_set >>
                /\ UNCHANGED exit
    /\ UNCHANGED << seg, args, fs, mine_student, mine_owner, mine_repo, root,
                    student, owner, repo, items, choice, retries, calls,
                    gold_path, mine_path, kept, missing, extra, matched, out >>

(***************************************************************************)
(* main, lines 129-148: the comparison and the report.                     *)
(***************************************************************************)
Summary ==
    /\ pc = "summary" /\ exit = Running
    /\ missing' = Missing(gold_set, mine_set)
    /\ extra' = Extra(gold_set, mine_set)
    /\ matched' = Matched(gold_set, mine_set)
    /\ out' = Append(out, Event("Summary",
                << Cardinality(gold_set), Cardinality(mine_set),
                   Cardinality(matched'), Cardinality(missing'),
                   Cardinality(extra') >>))
    /\ pc' = "list_missing"
    /\ UNCHANGED << side, seg, args, fs, mine_student, mine_owner, mine_repo,
                    root, student, owner, repo, items, choice, retries, calls,
                    gold_path, mine_path, data, kept, gold_set, mine_set, exit >>

\* the lines "if S: print(header); for ... in sorted(S): print(...)" print
Listing(header, S) ==
    IF S = {} THEN << >>
    ELSE IF SortRaises(S) THEN << Event(header, << >>) >>
    ELSE << Event(header, << >>) >>
           \o [ i \in 1..Cardinality(S) |-> Event("pair", SortedPairs(S)[i]) ]

ListMissing ==
    /\ pc = "list_missing" /\ exit = Running
    /\ out' = out \o Listing("In GOLD but NOT in MINE", missing)
    /\ IF SortRaises(missing)
       THEN exit' = Uncaught("TypeError") /\ pc' = "exit"
       ELSE exit' = exit /\ pc' = "list_extra"
    /\ UNCHANGED << side, seg, args, fs, mine_student, mine_owner, mine_repo,
                    root, student, owner, repo, items, choice, retries, calls,
                    gold_path, mine_path, data, kept, gold_set, mine_set,
                    missing, extra, matched >>

\* the second listing; main returns after it and the status is 0
ListExtra ==
    /\ pc = "list_extra" /\ exit = Running
    /\ out' = out \o Listing("In MINE but NOT in GOLD", extra)
    /\ exit' = IF SortRaises(extra) THEN Uncaught("TypeError") ELSE Returned
    /\ pc' = "exit"
    /\ UNCHANGED << side, seg, args, fs, mine_student, mine_owner, mine_repo,
                    root, student, owner, repo, items, choice, retries, calls,
                    gold_path, mine_path, data, kept, gold_set, mine_set,
                    missing, extra, matched >>

NextCompare ==
    Prefill \/ SidePath \/ Info \/ Ensure \/ Open \/ Pairs \/ Summary
      \/ ListMissing \/ ListExtra

\* the runs of "-g FILE -m FILE"
SpecCompare == InitWith(ArgsExplicit) /\ [][NextCompare]_vars

Next ==
    Prefill \/ SidePath \/ Discover \/ Input \/ ResolveDataset \/ Info
      \/ Ensure \/ Open \/ Pairs \/ Summary \/ ListMissing \/ ListExtra

Spec == Init /\ [][Next]_vars

(***************************************************************************)
(* Properties.                                                             *)
(***************************************************************************)
SummaryPrinted == \E i \in DOMAIN out : out[i].ev = "Summary"

\* the five counts of the summary block: GOLD, MINE, matched, missing, extra
SummaryCounts == out[CHOOSE i \in DOMAIN out : out[i].ev = "Summary"].arg

\* C1: once main has compared the two loaded sets, missing and extra are
\* disjoint, matched with missing makes up GOLD and matched with extra
\* makes up MINE, and the printed counts add up accordingly.
C1_ComparisonPartitions ==
    SummaryPrinted =>
        /\ missing \cap extra = {}
        /\ matched \cup missing = gold_set
        /\ matched \cup extra = mine_set
        /\ SummaryCounts[1] = Cardinality(gold_set)
        /\ SummaryCounts[2] = Cardinality(mine_set)
        /\ SummaryCounts[1] = SummaryCounts[3] + SummaryCounts[4]
        /\ SummaryCounts[2] = SummaryCounts[3] + SummaryCounts[5]

\* a comparison in which none of the three sets is empty
C1_Witness ==
    SummaryPrinted /\ missing # {} /\ extra # {} /\ matched # {}

\* the order of two pairs as tuples: the commits decide, and the names
\* when the commits are equal
LexLess(p, q) == IF p[1] = q[1] THEN ValLt(p[2], q[2]) ELSE ValLt(p[1], q[1])

\* out[from+1 .. from+1+|S|] is a listing of S: the header, then every
\* member of S once, ascending
IsListing(from, header, S) ==
    /\ Len(out) >= from + 1 + Cardinality(S)
    /\ out[from + 1] = Event(header, << >>)
    /\ \A i \in (from + 2)..(from + 1 + Cardinality(S)) : out[i].ev = "pair"
    /\ { out[i].arg : i \in (from + 2)..(from + 1 + Cardinality(S)) } = S
    /\ \A i, j \in (from + 2)..(from + 1 + Cardinality(S)) :
         i < j => LexLess(out[i].arg, out[j].arg)

\* the length of the listing of S in the output: nothing for an empty set
ListingLen(S) == IF S = {} THEN 0 ELSE Cardinality(S) + 1

\* C9: a run that ends with status 0 has printed, in this order, the GOLD
\* path, the MINE path, the summary with the five counts, the listing of
\* missing if and only if missing is not empty, and the listing of extra if
\* and only if extra is not empty; each listing holds every member of its
\* set once in ascending tuple order, and no matched pair is listed.
C9_ReportOrder ==
    exit = Returned =>
        /\ Len(out) = 3 + ListingLen(missing) + ListingLen(extra)
        /\ out[1] = Event("INFO GOLD", gold_path)
        /\ out[2] = Event("INFO MINE", mine_path)
        /\ out[3] = Event("Summary",
                      << Cardinality(gold_set), Cardinality(mine_set),
                         Cardinality(gold_set \cap mine_set),
                         Cardinality(gold_set \ mine_set),
                         Cardinality(mine_set \ gold_set) >>)
        /\ missing = gold_set \ mine_set
        /\ extra = mine_set \ gold_set
        /\ missing # {} => IsListing(3, "In GOLD but NOT in MINE", missing)
        /\ extra # {} =>
             IsListing(3 + ListingLen(missing), "In MINE but NOT in GOLD", extra)
        /\ \A i \in DOMAIN out :
             out[i].ev = "pair" => out[i].arg \notin gold_set \cap mine_set

\* a run that ends with status 0 after listing two missing pairs and an
\* extra one
C9_Witness ==
    /\ exit = Returned
    /\ Cardinality(missing) >= 2
    /\ extra # {}

Sides == { "GOLD", "MINE" }

Segments == << "student", "owner", "repo" >>

\* the segments main did not hand to discover for a side, in order
Unsupplied(s) == SelectSeq(Segments, LAMBDA g : Supplied(s)[g] = None)

CallsOf(s) == SelectSeq(calls, LAMBDA c : c.side = s)

CallSegments(s) == [ i \in 1..Len(CallsOf(s)) |-> CallsOf(s)[i].seg ]

IsPrefix(a, b) == Len(a) <= Len(b) /\ a = SubSeq(b, 1, Len(a))

\* the value of a segment of a side: the one supplied, or else the item the
\* chooser returned for it
SegmentValue(s, g) ==
    IF Supplied(s)[g] # None THEN Supplied(s)[g]
    ELSE IF \E i \in 1..Len(CallsOf(s)) : CallsOf(s)[i].seg = g
    THEN CallsOf(s)[CHOOSE i \in 1..Len(CallsOf(s)) : CallsOf(s)[i].seg = g].item
    ELSE None

\* a segment as path components: an empty segment adds none
Component(x) == IF x = "" THEN << >> ELSE << x >>

AbsoluteRoot(s) == Cwd \o RootArg(s)

\* root for the student, root/student for the owner, root/student/owner
\* for the repo
ExpectedDir(s, g) ==
    AbsoluteRoot(s)
      \o (IF g = "student" THEN << >> ELSE Component(SegmentValue(s, "student")))
      \o (IF g = "repo" THEN Component(SegmentValue(s, "owner")) ELSE << >>)

\* root/student/owner/repo/dataset.json
ExpectedPath(s) ==
    AbsoluteRoot(s) \o Component(SegmentValue(s, "student"))
      \o Component(SegmentValue(s, "owner"))
      \o Component(SegmentValue(s, "repo")) \o << "dataset.json" >>

\* the ways a run ends inside the resolution of a side by discovery
DiscoveryExits ==
    { SysExit("root not found"), SysExit("no options"),
      Uncaught("FileNotFoundError"), Uncaught("NotADirectoryError"),
      Uncaught("EOFError"), Uncaught("ValueError") }

\* C7: for a side given an explicit path, the root is not checked, nothing
\* is listed, the chooser is not called and the path is the explicit one
\* made absolute.  For a side left to discovery, the chooser calls made so
\* far are the first of the segments main did not hand to discover, in the
\* order student, owner, repo, each listing root, root/student and
\* root/student/owner; and once the path is resolved there has been one
\* call for each such segment and none for another, and the path is
\* root/student/owner/repo/dataset.json.
C7_PathResolution ==
    \A s \in Sides :
        IF ExplicitArg(s) # NoPath
        THEN /\ CallsOf(s) = << >>
             /\ ~(side = s /\ pc = "exit" /\ exit \in DiscoveryExits)
             /\ PathOf(s) # NoPath => PathOf(s) = Cwd \o ExplicitArg(s)
        ELSE /\ IsPrefix(CallSegments(s), Unsupplied(s))
             /\ \A i \in 1..Len(CallsOf(s)) :
                  CallsOf(s)[i].dir = ExpectedDir(s, CallsOf(s)[i].seg)
             /\ PathOf(s) # NoPath =>
                  /\ CallSegments(s) = Unsupplied(s)
                  /\ PathOf(s) = ExpectedPath(s)

\* both sides resolved by discovery: three chooser calls for GOLD, and two
\* for MINE, whose third segment was supplied
C7_Witness ==
    /\ pc = "info"
    /\ args.gold = NoPath /\ args.mine = NoPath
    /\ Len(CallsOf("GOLD")) = 3
    /\ Len(CallsOf("MINE")) = 2
    /\ Len(Unsupplied("MINE")) = 2

\* the i-th positional, if there is one
Positional(i) == IF Len(args.positional) >= i THEN args.positional[i] ELSE None

\* a named flag that is given, or else the positional
FlagFirst(flag, i) == IF flag # None THEN flag ELSE Positional(i)

\* C8: after the prefill the MINE triple holds, for each segment, the named
\* flag when it is given and otherwise the positional; and the GOLD path
\* is made of the GOLD arguments and of the GOLD choices alone.
C8_PositionalsFillMine ==
    /\ pc # "prefill" =>
         /\ mine_student = FlagFirst(args.mine_student, 1)
         /\ mine_owner = FlagFirst(args.mine_owner, 2)
         /\ mine_repo = FlagFirst(args.mine_repo, 3)
    /\ gold_path # NoPath =>
         gold_path = IF args.gold # NoPath THEN Cwd \o args.gold
                     ELSE ExpectedPath("GOLD")

\* the names of the subdirectories of p that are not hidden, sorted
VisibleSubdirectories(p) ==
    SortedNames({ PathName(d) : d \in
        { d \in fs.dirs : Len(d) = Len(p) + 1 /\ Parent(d) = p
                          /\ ~StartsWithDot(PathName(d)) } })

\* C6: the list the chooser is prompting for holds exactly the names of the
\* subdirectories of the listed directory that do not start with a dot,
\* sorted.
C6_CandidatesAreDirectories ==
    pc = "input" => items = VisibleSubdirectories(calls[Len(calls)].dir)

\* a decimal number
Decimal(c) == c \in { "0", "1", "2", "3", "4" }

\* the line is a number k with 1 <= k <= n
ValidChoice(c, n) == Decimal(c) /\ 1 <= IntOf(c) /\ IntOf(c) <= n

\* C5: every line read at a prompt either is a number k within 1..n, and
\* the call returns the k-th item, or leaves the run at the prompt.
C5_ChooserLoop ==
    [][ (pc = "input" /\ exit' # Uncaught("EOFError")) =>
          IF ValidChoice(choice', Len(items))
          THEN /\ pc' # "input" /\ exit' = Running
               /\ calls'[Len(calls)].item = items[IntOf(choice')]
               /\ items[IntOf(choice')] =
                    IF seg = "student" THEN student'
                    ELSE IF seg = "owner" THEN owner' ELSE repo'
          ELSE pc' = "input" /\ exit' = Running ]_vars

\* the set load_pairs has just returned to main
Loaded(s, gold, mine) == IF s = "GOLD" THEN gold ELSE mine

\* the elements of an array that are mappings holding both keys
WithBothKeys(d) ==
    { i \in 1..Len(d.items) :
        d.items[i].t = "dict" /\ { "aCommit", "name" } \subseteq d.items[i].keys }

\* C2: for every JSON array, load_pairs returns the set of the (aCommit,
\* name) pairs of the elements that are mappings holding both keys, and
\* raises nothing.
C2_LoadPairsOfArray ==
    [][ (pc = "pairs" /\ data.kind = "list") =>
          /\ exit' = Running
          /\ Loaded(side, gold_set', mine_set') =
               { << data.items[i].aCommit, data.items[i].name >> :
                   i \in WithBothKeys(data) } ]_vars

\* C3: load_pairs raises nothing on an array, and the set it returns holds
\* the pairs of the mappings whose aCommit and name are both strings, and
\* no other pair.
C3_OnlyStringPairs ==
    [][ (pc = "pairs" /\ data.kind = "list") =>
          /\ exit' = Running
          /\ Loaded(side, gold_set', mine_set') =
               { << data.items[i].aCommit, data.items[i].name >> :
                   i \in { j \in WithBothKeys(data) :
                             /\ data.items[j].aCommit.t = "str"
                             /\ data.items[j].name.t = "str" } } ]_vars

\* the four fatal conditions: a missing root, a missing file, a file that
\* is not JSON, an empty candidate list
FatalExits ==
    { SysExit("root not found"), SysExit("file not found"),
      SysExit("file not found, with hint"), SysExit("invalid JSON"),
      SysExit("no options") }

\* both files exist and have been parsed as JSON
BothParsed == SummaryPrinted \/ (side = "MINE" /\ data # NoData)

\* C4: a run that ends on one of the four fatal conditions ends with a
\* status other than 0 and has printed no summary; a run that ends after
\* both files were found and parsed ends with status 0.
C4_ExitStatus ==
    /\ exit \in FatalExits => exit.code # 0 /\ ~SummaryPrinted
    /\ (exit.status = "exited" /\ BothParsed) => exit.code = 0

\* C10: a run that has ended either returned with status 0 after printing
\* the summary, or made a fatal exit with an [ERR] message and a status
\* other than 0.
C10_TwoWaysToEnd ==
    exit.status = "exited" =>
        \/ exit = Returned /\ SummaryPrinted
        \/ exit.how = "sys.exit" /\ exit.code # 0
====
